---- MODULE Spec2Model ----
(***************************************************************************)
(* Model of examples/instrumented-app/src/app.py: a Flask service with     *)
(* five routes that emits spans, metric points and log records, and an      *)
(* after_request hook that logs the completed request with the ids of the   *)
(* current span.                                                            *)
(*                                                                          *)
(* Every request is served on its own worker thread (app.run threaded=True) *)
(* so a request and its thread are the same index r.  A handler is a list   *)
(* of telemetry instructions in program order; an action executes the       *)
(* instructions between two blocking points (time.sleep) of the handler.    *)
(***************************************************************************)
EXTENDS Integers, Sequences, FiniteSets, TLC

\* Number of requests in flight, each on its own worker thread.
NumRequests == 2

Requests == 1..NumRequests

-----------------------------------------------------------------------------
(* Span and trace identifiers.  A trace id is a 128-bit integer and a span  *)
(* id a 64-bit integer; they are held as big-endian sequences of 16-bit     *)
(* limbs (8 limbs and 4 limbs).                                             *)

TraceIdLimbs == 8
SpanIdLimbs == 4

\* Widths of the '032x' and '016x' formats of the completion hook.
TraceIdHexWidth == 32
SpanIdHexWidth == 16

Zeros(n) == [i \in 1..n |-> 0]

INVALID_TRACE_ID == Zeros(TraceIdLimbs)
INVALID_SPAN_ID == Zeros(SpanIdLimbs)

\* Outputs of the random source of the id generator: a zero high limb (the id
\* prints with leading zeros) and 0xabcd.
RngValues == << 0, 43981 >>

HexDigits == <<"0", "1", "2", "3", "4", "5", "6", "7",
               "8", "9", "a", "b", "c", "d", "e", "f">>

HexDigit(d) == HexDigits[d + 1]

\* The four hex digits of one 16-bit limb.
Hex4(n) ==
    << HexDigit(n \div 4096), HexDigit((n \div 256) % 16),
       HexDigit((n \div 16) % 16), HexDigit(n % 16) >>

RECURSIVE HexAll(_)
HexAll(limbs) ==
    IF limbs = <<>> THEN <<>> ELSE Hex4(Head(limbs)) \o HexAll(Tail(limbs))

RECURSIVE StripZeros(_)
StripZeros(s) ==
    IF Len(s) > 1 /\ Head(s) = "0" THEN StripZeros(Tail(s)) ELSE s

RECURSIVE PadZeros(_, _)
PadZeros(s, width) ==
    IF Len(s) >= width THEN s ELSE PadZeros(<<"0">> \o s, width)

\* format(n, 'x'): the hex digits of n without leading zeros.
FormatHexUnpadded(id, width) == StripZeros(HexAll(id))

\* format(n, '0<width>x'): the hex digits of n, zero-padded on the left to
\* at least width characters.
FormatHex(id, width) == PadZeros(StripZeros(HexAll(id)), width)

-----------------------------------------------------------------------------
VARIABLES
    excluded_urls,      \* routes the Flask instrumentation does not trace
    pc,                 \* pc[r]: position of request r's worker thread
    request,            \* request[r]: method, path and body of request r
    locals,             \* locals[r]: local variables of the handler
    spans,              \* spans[r]: the spans started while serving r
    context,            \* context[r]: stack of current spans of r's thread
    ops,                \* ops[r]: operations r's thread executed, in order
    logs,               \* logs[r]: log records emitted by r's thread
    request_counter,    \* request_counter[r]: points r added to the counter
    request_duration,   \* request_duration[r]: points r recorded
    db_query_duration,  \* db_query_duration[r]: points r recorded
    response,           \* response[r]: the response the handler produced
    sent,               \* sent[r]: the response the after_request chain returned
    hook_runs           \* hook_runs[r]: runs of the after_request hook for r

vars == << excluded_urls, pc, request, locals, spans, context, ops, logs,
           request_counter, request_duration, db_query_duration, response,
           sent, hook_runs >>

Last(s) == s[Len(s)]

NoTags == <<>>
None == [status |-> 0, body |-> "none"]

\* RandomIdGenerator: a fresh non-zero id for every span and trace.  The
\* k-th span started for request r gets an id no other span has; the high
\* limb alternates between the outputs of the random source.
Random(r) == RngValues[(r % Len(RngValues)) + 1]
generate_span_id(r, k) == << Random(r), 0, r, k >>
generate_trace_id(r) == << Random(r), 0, 0, 0, 0, 0, 0, r >>

\* The telemetry state one worker thread touches while serving request r.
Local(r) ==
    [ spans |-> spans[r], context |-> context[r], ops |-> ops[r],
      logs |-> logs[r], counter |-> request_counter[r],
      duration |-> request_duration[r], db |-> db_query_duration[r] ]

\* A reference <<request, index>> to a span; index 0 is INVALID_SPAN.
SpanOf(S, r, ref) ==
    IF ref[1] = r THEN S.spans[ref[2]] ELSE spans[ref[1]][ref[2]]

\* A process-wide current span instead of a per-thread one: the span another
\* in-flight request made current, when there is one.
get_current_span_shared(S, r) ==
    LET others == { q \in Requests : q # r /\ context[q] # <<>> }
    IN  IF others # {}
        THEN LET q == CHOOSE q \in others : TRUE IN << q, Last(context[q]) >>
        ELSE IF S.context = <<>> THEN << r, 0 >> ELSE << r, Last(S.context) >>

\* trace.get_current_span(): the span on top of the calling thread's context
\* (contextvars are per thread), INVALID_SPAN when there is none.
get_current_span(S, r) ==
    IF S.context = <<>> THEN << r, 0 >> ELSE << r, Last(S.context) >>

\* Span.is_recording(): a started SDK span that has not ended.
is_recording(S, r, ref) ==
    ref[2] # 0 /\ ~SpanOf(S, r, ref).ended

\* Span.get_span_context(): the ids of the span, zero for INVALID_SPAN.
get_span_context(S, r, ref) ==
    IF ref[2] = 0
    THEN [ trace_id |-> INVALID_TRACE_ID, span_id |-> INVALID_SPAN_ID ]
    ELSE [ trace_id |-> SpanOf(S, r, ref).trace_id,
           span_id |-> SpanOf(S, r, ref).span_id ]

\* Index in S.spans of the span with this name, 0 when there is none.
SpanIndex(S, name) ==
    IF \E i \in 1..Len(S.spans) : S.spans[i].name = name
    THEN CHOOSE i \in 1..Len(S.spans) : S.spans[i].name = name
    ELSE 0

-----------------------------------------------------------------------------
(* Instructions: the telemetry calls of the handlers.                       *)

Instr(op, span, key, val, tags) ==
    [ op |-> op, span |-> span, key |-> key, val |-> val, tags |-> tags ]

StartSpan(name)          == Instr("start_span", name, "", "", NoTags)
EndSpan(name)            == Instr("end_span", name, "", "", NoTags)
SetAttribute(sp, k, v)   == Instr("set_attribute", sp, k, v, NoTags)
AddEvent(sp, name)       == Instr("add_event", sp, name, "", NoTags)
SetStatusError(sp, msg)  == Instr("set_status", sp, "ERROR", msg, NoTags)
RecordException(sp, msg) ==
    Instr("record_exception", sp, "Exception", msg, NoTags)
LogInfo(msg)             == Instr("log", "", "INFO", msg, NoTags)
LogError(msg)            == Instr("log", "", "ERROR", msg, NoTags)
CounterAdd(tags)         == Instr("counter_add", "", "", "", tags)
DurationRecord(tags)     == Instr("duration_record", "", "", "", tags)
DbDurationRecord(tags)   == Instr("db_duration_record", "", "", "", tags)
Sleep                    == Instr("sleep", "", "", "", NoTags)
GetJson                  == Instr("get_json", "", "", "", NoTags)
Return(status)           == Instr("return", "", "", status, NoTags)
Raise(msg)               == Instr("raise", "", "Exception", msg, NoTags)

NewSpan(S, r, name) ==
    LET k == Len(S.spans) + 1
        cur == get_current_span(S, r)
        parent == get_span_context(S, r, cur)
    IN  [ name |-> name,
          trace_id |-> IF cur[2] = 0 THEN generate_trace_id(r)
                       ELSE parent.trace_id,
          span_id |-> generate_span_id(r, k),
          parent |-> parent.span_id,
          attrs |-> <<>>,
          events |-> <<>>,
          status |-> "UNSET",
          description |-> "",
          exceptions |-> 0,
          ended |-> FALSE ]

\* An update of a span that has not ended; the SDK ignores calls on an ended
\* span.
UpdateSpan(S, name, f(_)) ==
    LET i == SpanIndex(S, name)
    IN  IF i = 0 \/ S.spans[i].ended THEN S
        ELSE [ S EXCEPT !.spans[i] = f(S.spans[i]) ]

\* The log record of a logging call on thread r: LoggingInstrumentor and the
\* SDK LoggingHandler stamp it with the ids of the current span.
LogRecord(S, r, level, msg, extra_trace_id, extra_span_id) ==
    LET cur == get_current_span(S, r)
        sc == get_span_context(S, r, cur)
    IN  [ level |-> level, msg |-> msg,
          trace_id |-> sc.trace_id, span_id |-> sc.span_id,
          active |-> IF S.context = <<>> THEN 0 ELSE Last(S.context),
          extra_trace_id |-> extra_trace_id,
          extra_span_id |-> extra_span_id ]

SetAttr(sp, k, v) == [ sp EXCEPT !.attrs = (k :> v) @@ sp.attrs ]
AddEv(sp, name) == [ sp EXCEPT !.events = Append(sp.events, name) ]
SetErr(sp, msg) == [ sp EXCEPT !.status = "ERROR", !.description = msg ]
RecExc(sp) ==
    [ sp EXCEPT !.exceptions = sp.exceptions + 1,
                !.events = Append(sp.events, "exception") ]
EndSp(sp) == [ sp EXCEPT !.ended = TRUE ]

\* The effect of one instruction on the thread's telemetry state.
Effect(S, r, i) ==
    CASE i.op = "start_span" ->
            [ S EXCEPT !.spans = Append(S.spans, NewSpan(S, r, i.span)),
                       !.context = Append(S.context, Len(S.spans) + 1) ]
      [] i.op = "end_span" ->
            LET T == UpdateSpan(S, i.span, EndSp)
            IN  [ T EXCEPT !.context = SelectSeq(T.context,
                                LAMBDA k : k # SpanIndex(S, i.span)) ]
      [] i.op = "set_attribute" ->
            LET f(sp) == SetAttr(sp, i.key, i.val) IN UpdateSpan(S, i.span, f)
      [] i.op = "add_event" ->
            LET f(sp) == AddEv(sp, i.key) IN UpdateSpan(S, i.span, f)
      [] i.op = "set_status" ->
            LET f(sp) == SetErr(sp, i.val) IN UpdateSpan(S, i.span, f)
      [] i.op = "record_exception" -> UpdateSpan(S, i.span, RecExc)
      [] i.op = "log" ->
            [ S EXCEPT !.logs = Append(S.logs,
                          LogRecord(S, r, i.key, i.val, <<>>, <<>>)) ]
      [] i.op = "counter_add" ->
            [ S EXCEPT !.counter = Append(S.counter, i.tags) ]
      [] i.op = "duration_record" ->
            [ S EXCEPT !.duration = Append(S.duration, i.tags) ]
      [] i.op = "db_duration_record" ->
            [ S EXCEPT !.db = Append(S.db, i.tags) ]
      [] OTHER -> S

\* The entry of the thread's history for an instruction.
Op(i) == << i.op, i.span, i.key >>

Exec(S, r, i) ==
    LET T == Effect(S, r, i) IN [ T EXCEPT !.ops = Append(T.ops, Op(i)) ]

RECURSIVE Run(_, _, _)
Run(S, r, code) ==
    IF code = <<>> THEN S ELSE Run(Exec(S, r, Head(code)), r, Tail(code))

\* Store the thread's telemetry state back.
Commit(r, S) ==
    /\ spans' = [spans EXCEPT ![r] = S.spans]
    /\ context' = [context EXCEPT ![r] = S.context]
    /\ ops' = [ops EXCEPT ![r] = S.ops]
    /\ logs' = [logs EXCEPT ![r] = S.logs]
    /\ request_counter' = [request_counter EXCEPT ![r] = S.counter]
    /\ request_duration' = [request_duration EXCEPT ![r] = S.duration]
    /\ db_query_duration' = [db_query_duration EXCEPT ![r] = S.db]

-----------------------------------------------------------------------------
(* The requests: the five routes of the application.                        *)

Routes ==
    { [method |-> "GET", path |-> "/"],
      [method |-> "GET", path |-> "/api/data"],
      [method |-> "POST", path |-> "/api/checkout"],
      [method |-> "GET", path |-> "/api/error"],
      [method |-> "GET", path |-> "/health"] }

NoJson == <<>>

\* Bodies of a POST /api/checkout: text that is not JSON, a JSON value that
\* is not an object, the JSON null, and a JSON object.
CheckoutBodies ==
    { [kind |-> "malformed", json |-> NoJson],
      [kind |-> "non_object", json |-> NoJson],
      [kind |-> "null", json |-> NoJson],
      [kind |-> "object", json |-> [userId |-> "u1", userCurrency |-> "EUR"]] }

NoBody == [kind |-> "none", json |-> NoJson]

BodiesOf(route) ==
    IF route.path = "/api/checkout" THEN CheckoutBodies ELSE {NoBody}

NoRequest == [method |-> "", path |-> "", body |-> NoBody]
NoLocals == [user_id |-> "", currency |-> "", error_type |-> ""]

\* Configurations of OTEL_PYTHON_FLASK_EXCLUDED_URLS: nothing excluded, or
\* the health check excluded from tracing.
ExcludedUrlSettings == { {}, {"/health"} }

\* dict.get(key, default)
DictGet(d, key, default) == IF key \in DOMAIN d THEN d[key] ELSE default

JsonResponse(status) == [status |-> status, body |-> "json"]
ErrorPage(status) == [status |-> status, body |-> "html"]

\* str() of the HTTP status codes the service answers with.
Str(n) ==
    CASE n = 200 -> "200"
      [] n = 400 -> "400"
      [] n = 500 -> "500"

Tags(method, endpoint, status_code) ==
    [ method |-> method, endpoint |-> endpoint, status_code |-> status_code ]

-----------------------------------------------------------------------------
(* Flask and its OpenTelemetry instrumentation around the handlers.         *)

ServerSpanName(path) ==
    CASE path = "/" -> "GET /"
      [] path = "/api/data" -> "GET /api/data"
      [] path = "/api/checkout" -> "POST /api/checkout"
      [] path = "/api/error" -> "GET /api/error"
      [] path = "/health" -> "GET /health"

\* FlaskInstrumentor's before_request: start the server span of the request
\* and make it current, unless the url is excluded.
BeforeRequest(path) ==
    IF path \in excluded_urls THEN <<>>
    ELSE << StartSpan(ServerSpanName(path)) >>

\* FlaskInstrumentor's teardown_request: end the server span and detach it.
TeardownRequest(path) ==
    IF path \in excluded_urls THEN <<>>
    ELSE << EndSpan(ServerSpanName(path)) >>

\* The application logger left enabled.
app_logger_enabled == FALSE

\* app.logger.disabled = True
app_logger_disabled == TRUE

\* Flask.handle_exception for an exception that is no HTTPException: log it
\* on app.logger, answer 500 with the error page.
HandleException ==
    IF app_logger_disabled THEN <<>>
    ELSE << Instr("log", "", "ERROR", "Exception on request", NoTags) >>

\* A span started by hand and ended only on the normal path: on an
\* exception it records the exception and the status and stays open.
SpanExitOnExceptionLeftOpen(name, msg) ==
    << RecordException(name, msg),
       SetStatusError(name, <<"Exception: ">> \o msg) >>

\* Leaving "with tracer.start_as_current_span(name)" by an exception: the
\* span records the exception, gets an error status and ends.
SpanExitOnException(name, msg) ==
    << RecordException(name, msg),
       SetStatusError(name, <<"Exception: ">> \o msg),
       EndSpan(name) >>

-----------------------------------------------------------------------------
(* The handlers, as the instructions between their blocking points.         *)

\* home() logging before it sets the http attributes.
home_begin_log_first ==
    << StartSpan("home_request"),
       LogInfo("Homepage request started"),
       SetAttribute("home_request", "http.method", "GET"),
       SetAttribute("home_request", "http.route", "/"),
       SetAttribute("home_request", "http.endpoint", "home"),
       Sleep >>

\* home(): up to time.sleep(processing_time)
home_begin ==
    << StartSpan("home_request"),
       SetAttribute("home_request", "http.method", "GET"),
       SetAttribute("home_request", "http.route", "/"),
       SetAttribute("home_request", "http.endpoint", "home"),
       LogInfo("Homepage request started"),
       Sleep >>

\* home(): after the sleep
home_end ==
    << SetAttribute("home_request", "processing_time", "<float>"),
       AddEvent("home_request", "Request processed"),
       CounterAdd(Tags("GET", "/", "200")),
       DurationRecord(Tags("GET", "/", "200")),
       LogInfo("Homepage request completed successfully"),
       Return("200"),
       EndSpan("home_request") >>

\* get_data(): up to time.sleep(db_time)
get_data_begin ==
    << StartSpan("get_data"),
       SetAttribute("get_data", "http.method", "GET"),
       SetAttribute("get_data", "http.route", "/api/data"),
       SetAttribute("get_data", "http.endpoint", "get_data"),
       StartSpan("database_query"),
       SetAttribute("database_query", "db.system", "postgresql"),
       SetAttribute("database_query", "db.operation", "SELECT"),
       SetAttribute("database_query", "db.table", "users"),
       SetAttribute("database_query", "db.statement",
                    "SELECT id, name FROM users LIMIT 10"),
       Sleep >>

DbTags ==
    ("db.system" :> "postgresql") @@ ("db.operation" :> "SELECT")
        @@ ("db.table" :> "users")

\* get_data() with the database metric recorded after the database_query
\* block.
get_data_db_end_record_outside ==
    << SetAttribute("database_query", "db.rows_affected", "3"),
       EndSpan("database_query"),
       DbDurationRecord(DbTags),
       Sleep >>

\* get_data(): the rest of the database_query block, up to
\* time.sleep(processing_time)
get_data_db_end ==
    << SetAttribute("database_query", "db.rows_affected", "3"),
       DbDurationRecord(DbTags),
       EndSpan("database_query"),
       Sleep >>

\* get_data(): after the second sleep
get_data_end ==
    << SetAttribute("get_data", "processing.duration", "<float>"),
       SetAttribute("get_data", "request.total_duration", "<float>"),
       CounterAdd(Tags("GET", "/api/data", "200")),
       DurationRecord(Tags("GET", "/api/data", "200")),
       Return("200"),
       EndSpan("get_data") >>

\* checkout(): the span is opened after the body is read; up to
\* time.sleep(payment_processing_time)
checkout_begin(user_id, currency) ==
    << StartSpan("checkout_process"),
       SetAttribute("checkout_process", "http.method", "POST"),
       SetAttribute("checkout_process", "http.route", "/api/checkout"),
       SetAttribute("checkout_process", "http.endpoint", "checkout"),
       SetAttribute("checkout_process", "user.id", user_id),
       SetAttribute("checkout_process", "user.email", "<email>"),
       SetAttribute("checkout_process", "checkout.amount", "<amount>"),
       SetAttribute("checkout_process", "checkout.currency", currency),
       Sleep >>

CheckoutTags(status_code, currency) ==
    [ method |-> "POST", endpoint |-> "/api/checkout",
      status_code |-> status_code, currency |-> currency ]

CheckoutErrorTags(status_code, currency, error_type) ==
    [ method |-> "POST", endpoint |-> "/api/checkout",
      status_code |-> status_code, currency |-> currency,
      error_type |-> error_type ]

\* checkout(): after the sleep, is_success
checkout_success(user_id, currency) ==
    << LogInfo("Checkout process started"),
       SetAttribute("checkout_process", "checkout.status", "success"),
       SetAttribute("checkout_process", "checkout.order_id", "<order_id>"),
       SetAttribute("checkout_process", "payment.processed_amount", "<amount>"),
       AddEvent("checkout_process", "Payment processed successfully"),
       AddEvent("checkout_process", "Order created"),
       LogInfo("Checkout completed successfully"),
       CounterAdd(CheckoutTags("200", currency)),
       DurationRecord(CheckoutTags("200", currency)),
       Return("200"),
       EndSpan("checkout_process") >>

error_types ==
    << "payment_declined", "insufficient_funds", "card_expired",
       "fraud_detected", "payment_timeout", "invalid_card_number" >>

CheckoutErrorMsg(error_type, user_id) ==
    << "Checkout failed: ", error_type, " for user ", user_id >>

\* checkout() failing without the logging.error call.
checkout_failure_unlogged(user_id, currency, error_type) ==
    LET error_msg == CheckoutErrorMsg(error_type, user_id)
    IN  << LogInfo("Checkout process started"),
           SetStatusError("checkout_process", error_msg),
           SetAttribute("checkout_process", "error.type", error_type),
           SetAttribute("checkout_process", "error.message", error_msg),
           SetAttribute("checkout_process", "checkout.status", "failed"),
           SetAttribute("checkout_process", "payment.failure_reason",
                        error_type),
           SetAttribute("checkout_process", "payment.attempted_amount",
                        "<amount>"),
           AddEvent("checkout_process", "Payment failed"),
           RecordException("checkout_process", error_msg),
           CounterAdd(CheckoutErrorTags("500", currency, error_type)),
           DurationRecord(CheckoutErrorTags("500", currency, error_type)),
           Raise(error_msg) >>
        \o SpanExitOnException("checkout_process", error_msg)

\* checkout(): after the sleep, not is_success; the handler raises
checkout_failure(user_id, currency, error_type) ==
    LET error_msg == CheckoutErrorMsg(error_type, user_id)
    IN  << LogInfo("Checkout process started"),
           SetStatusError("checkout_process", error_msg),
           SetAttribute("checkout_process", "error.type", error_type),
           SetAttribute("checkout_process", "error.message", error_msg),
           SetAttribute("checkout_process", "checkout.status", "failed"),
           SetAttribute("checkout_process", "payment.failure_reason",
                        error_type),
           SetAttribute("checkout_process", "payment.attempted_amount",
                        "<amount>"),
           AddEvent("checkout_process", "Payment failed"),
           RecordException("checkout_process", error_msg),
           LogError("Checkout failed with payment error"),
           CounterAdd(CheckoutErrorTags("500", currency, error_type)),
           DurationRecord(CheckoutErrorTags("500", currency, error_type)),
           Raise(error_msg) >>
        \o SpanExitOnException("checkout_process", error_msg)

\* simulate_error(): up to time.sleep(processing_time)
simulate_error_begin ==
    << StartSpan("error_simulation"),
       SetAttribute("error_simulation", "http.method", "GET"),
       SetAttribute("error_simulation", "http.route", "/api/error"),
       SetAttribute("error_simulation", "http.endpoint", "simulate_error"),
       Sleep >>

SimulatedErrorMsg == << "Simulated error for testing traces and error metrics" >>

\* simulate_error() without the set_status call.
simulate_error_end_status_unset ==
    << RecordException("error_simulation", SimulatedErrorMsg),
       SetAttribute("error_simulation", "error.type", "SimulatedError"),
       SetAttribute("error_simulation", "error.message", SimulatedErrorMsg),
       CounterAdd(Tags("GET", "/api/error", "500")),
       DurationRecord(Tags("GET", "/api/error", "500")),
       Return("500"),
       EndSpan("error_simulation") >>

\* simulate_error(): after the sleep
simulate_error_end ==
    << SetStatusError("error_simulation", SimulatedErrorMsg),
       RecordException("error_simulation", SimulatedErrorMsg),
       SetAttribute("error_simulation", "error.type", "SimulatedError"),
       SetAttribute("error_simulation", "error.message", SimulatedErrorMsg),
       CounterAdd(Tags("GET", "/api/error", "500")),
       DurationRecord(Tags("GET", "/api/error", "500")),
       Return("500"),
       EndSpan("error_simulation") >>

\* health()
health_code ==
    << StartSpan("health_check"),
       SetAttribute("health_check", "http.method", "GET"),
       SetAttribute("health_check", "http.route", "/health"),
       SetAttribute("health_check", "http.endpoint", "health"),
       CounterAdd(Tags("GET", "/health", "200")),
       DurationRecord(Tags("GET", "/health", "200")),
       Return("200"),
       EndSpan("health_check") >>

-----------------------------------------------------------------------------
(* The state machine.                                                       *)

Init ==
    /\ excluded_urls \in ExcludedUrlSettings
    /\ pc = [r \in Requests |-> "idle"]
    /\ request = [r \in Requests |-> NoRequest]
    /\ locals = [r \in Requests |-> NoLocals]
    /\ spans = [r \in Requests |-> <<>>]
    /\ context = [r \in Requests |-> <<>>]
    /\ ops = [r \in Requests |-> <<>>]
    /\ logs = [r \in Requests |-> <<>>]
    /\ request_counter = [r \in Requests |-> <<>>]
    /\ request_duration = [r \in Requests |-> <<>>]
    /\ db_query_duration = [r \in Requests |-> <<>>]
    /\ response = [r \in Requests |-> None]
    /\ sent = [r \in Requests |-> None]
    /\ hook_runs = [r \in Requests |-> 0]

Goto(r, label) == pc' = [pc EXCEPT ![r] = label]

\* The handler of r is over with this response; after_request runs next.
Respond(r, resp) ==
    /\ response' = [response EXCEPT ![r] = resp]
    /\ Goto(r, "after_request")

\* A request arrives and gets its worker thread; the instrumentation's
\* before_request runs and Flask dispatches to the view function.
Accept(r) ==
    /\ pc[r] = "idle"
    /\ \E route \in Routes : \E body \in BodiesOf(route) :
          /\ request' = [request EXCEPT ![r] =
                 [method |-> route.method, path |-> route.path, body |-> body]]
          /\ Commit(r, Run(Local(r), r, BeforeRequest(route.path)))
    /\ Goto(r, "dispatch")
    /\ UNCHANGED << excluded_urls, locals, response, sent, hook_runs >>

Dispatched(r, path) == pc[r] = "dispatch" /\ request[r].path = path

HomeBegin(r) ==
    /\ Dispatched(r, "/")
    /\ Commit(r, Run(Local(r), r, home_begin))
    /\ Goto(r, "home_sleep")
    /\ UNCHANGED << excluded_urls, request, locals, response, sent,
                    hook_runs >>

HomeEnd(r) ==
    /\ pc[r] = "home_sleep"
    /\ Commit(r, Run(Local(r), r, home_end))
    /\ Respond(r, JsonResponse(200))
    /\ UNCHANGED << excluded_urls, request, locals, sent, hook_runs >>

GetDataBegin(r) ==
    /\ Dispatched(r, "/api/data")
    /\ Commit(r, Run(Local(r), r, get_data_begin))
    /\ Goto(r, "db_sleep")
    /\ UNCHANGED << excluded_urls, request, locals, response, sent,
                    hook_runs >>

GetDataDbEnd(r) ==
    /\ pc[r] = "db_sleep"
    /\ Commit(r, Run(Local(r), r, get_data_db_end))
    /\ Goto(r, "processing_sleep")
    /\ UNCHANGED << excluded_urls, request, locals, response, sent,
                    hook_runs >>

GetDataEnd(r) ==
    /\ pc[r] = "processing_sleep"
    /\ Commit(r, Run(Local(r), r, get_data_end))
    /\ Respond(r, JsonResponse(200))
    /\ UNCHANGED << excluded_urls, request, locals, sent, hook_runs >>

\* checkout(): request.get_json() raises BadRequest on a body that is not
\* JSON; Flask answers 400 with the error page.
CheckoutBadRequest(r) ==
    /\ Dispatched(r, "/api/checkout")
    /\ request[r].body.kind = "malformed"
    /\ Commit(r, Run(Local(r), r, << GetJson >>))
    /\ Respond(r, ErrorPage(400))
    /\ UNCHANGED << excluded_urls, request, locals, sent, hook_runs >>

\* checkout(): a JSON value that is neither falsy nor an object has no
\* .get; the AttributeError reaches Flask.handle_exception.
CheckoutNotObject(r) ==
    /\ Dispatched(r, "/api/checkout")
    /\ request[r].body.kind = "non_object"
    /\ Commit(r, Run(Local(r), r, << GetJson >> \o HandleException))
    /\ Respond(r, ErrorPage(500))
    /\ UNCHANGED << excluded_urls, request, locals, sent, hook_runs >>

\* checkout(): the body is read, the fields defaulted, the span opened.
CheckoutBegin(r) ==
    /\ Dispatched(r, "/api/checkout")
    /\ request[r].body.kind \in {"null", "object"}
    /\ LET checkout_data == IF request[r].body.kind = "null" THEN <<>>
                            ELSE request[r].body.json
           user_id == DictGet(checkout_data, "userId", "anonymous")
           currency == DictGet(checkout_data, "userCurrency", "USD")
       IN  /\ locals' = [locals EXCEPT ![r] =
                  [user_id |-> user_id, currency |-> currency,
                   error_type |-> ""]]
           /\ Commit(r, Run(Local(r), r,
                  << GetJson >> \o checkout_begin(user_id, currency)))
    /\ Goto(r, "payment_sleep")
    /\ UNCHANGED << excluded_urls, request, response, sent, hook_runs >>

\* checkout(): random.random() < success_rate
CheckoutSuccess(r) ==
    /\ pc[r] = "payment_sleep"
    /\ Commit(r, Run(Local(r), r,
           checkout_success(locals[r].user_id, locals[r].currency)))
    /\ Respond(r, JsonResponse(200))
    /\ UNCHANGED << excluded_urls, request, locals, sent, hook_runs >>

\* checkout(): otherwise; error_type = random.choice(error_types), the
\* exception leaves the handler and Flask answers 500.
CheckoutFailure(r) ==
    /\ pc[r] = "payment_sleep"
    /\ \E n \in 1..Len(error_types) :
          /\ locals' = [locals EXCEPT ![r].error_type = error_types[n]]
          /\ Commit(r, Run(Local(r), r,
                 checkout_failure(locals[r].user_id, locals[r].currency,
                                  error_types[n])
                 \o HandleException))
    /\ Respond(r, ErrorPage(500))
    /\ UNCHANGED << excluded_urls, request, sent, hook_runs >>

SimulateErrorBegin(r) ==
    /\ Dispatched(r, "/api/error")
    /\ Commit(r, Run(Local(r), r, simulate_error_begin))
    /\ Goto(r, "error_sleep")
    /\ UNCHANGED << excluded_urls, request, locals, response, sent,
                    hook_runs >>

SimulateErrorEnd(r) ==
    /\ pc[r] = "error_sleep"
    /\ Commit(r, Run(Local(r), r, simulate_error_end))
    /\ Respond(r, JsonResponse(500))
    /\ UNCHANGED << excluded_urls, request, locals, sent, hook_runs >>

Health(r) ==
    /\ Dispatched(r, "/health")
    /\ Commit(r, Run(Local(r), r, health_code))
    /\ Respond(r, JsonResponse(200))
    /\ UNCHANGED << excluded_urls, request, locals, sent, hook_runs >>

\* log_request without the is_recording test.
log_request_unconditional(S, r, resp) ==
    LET current_span == get_current_span(S, r)
        sc == get_span_context(S, r, current_span)
        trace_id == FormatHex(sc.trace_id, TraceIdHexWidth)
        span_id == FormatHex(sc.span_id, SpanIdHexWidth)
    IN  [ S EXCEPT !.logs = Append(S.logs,
              LogRecord(S, r, "INFO", "HTTP Request", trace_id, span_id)) ]

\* OpenTelemetryHTTPLogger.log_request: the log record it emits, if any.
log_request(S, r, resp) ==
    LET current_span == get_current_span(S, r)
        sc == get_span_context(S, r, current_span)
        trace_id == FormatHex(sc.trace_id, TraceIdHexWidth)
        span_id == FormatHex(sc.span_id, SpanIdHexWidth)
    IN  IF is_recording(S, r, current_span)
        THEN [ S EXCEPT !.logs = Append(S.logs,
                   LogRecord(S, r, "INFO", "HTTP Request", trace_id, span_id)) ]
        ELSE S

\* OpenTelemetryHTTPLogger.log_request: the response it returns.
log_request_result(resp) == resp

\* The entry of the history for a run of the completion hook; it notes
\* whether the thread had a current span that was recording.
HookEntry(S) ==
    Instr("after_request", "",
          IF S.context # <<>> /\ ~S.spans[Last(S.context)].ended
          THEN "recording" ELSE "not_recording",
          "", NoTags)

\* Flask finishes the request: it runs the after_request functions on the
\* response, whether the view returned it or an error handler made it, and
\* then pops the request context, which runs teardown_request.
AfterRequest(r) ==
    /\ pc[r] = "after_request"
    /\ LET S == Exec(Local(r), r, HookEntry(Local(r)))
           T == log_request(S, r, response[r])
       IN  Commit(r, Run(T, r, TeardownRequest(request[r].path)))
    /\ sent' = [sent EXCEPT ![r] = log_request_result(response[r])]
    /\ hook_runs' = [hook_runs EXCEPT ![r] = @ + 1]
    /\ Goto(r, "done")
    /\ UNCHANGED << excluded_urls, request, locals, response >>

Next ==
    \E r \in Requests :
        \/ Accept(r)
        \/ HomeBegin(r) \/ HomeEnd(r)
        \/ GetDataBegin(r) \/ GetDataDbEnd(r) \/ GetDataEnd(r)
        \/ CheckoutBadRequest(r) \/ CheckoutNotObject(r) \/ CheckoutBegin(r)
        \/ CheckoutSuccess(r) \/ CheckoutFailure(r)
        \/ SimulateErrorBegin(r) \/ SimulateErrorEnd(r)
        \/ Health(r)
        \/ AfterRequest(r)

Spec == Init /\ [][Next]_vars

-----------------------------------------------------------------------------
(* Vocabulary of the properties.                                            *)

\* The response of r has been produced.
Responded(r) == pc[r] \in {"after_request", "done"}

HandlerSpanName(path) ==
    CASE path = "/" -> "home_request"
      [] path = "/api/data" -> "get_data"
      [] path = "/api/checkout" -> "checkout_process"
      [] path = "/api/error" -> "error_simulation"
      [] path = "/health" -> "health_check"

\* Positions of an entry in the history of r's thread.
Positions(r, e) == { i \in 1..Len(ops[r]) : ops[r][i] = e }
Position(r, e) == CHOOSE i \in Positions(r, e) : TRUE
Once(r, e) == Cardinality(Positions(r, e)) = 1

\* The spans of r with this name.
SpansNamed(r, name) ==
    { k \in 1..Len(spans[r]) : spans[r][k].name = name }

\* The spans of r the handler started (all but the server span).
HandlerSpans(r) ==
    { k \in 1..Len(spans[r]) :
        spans[r][k].name # ServerSpanName(request[r].path) }

LogsAt(r, level) == { i \in 1..Len(logs[r]) : logs[r][i].level = level }

\* The log records of r the completion hook emitted.
HookLogs(r) == { i \in 1..Len(logs[r]) : logs[r][i].msg = "HTTP Request" }

ErrorTypeSet == { error_types[n] : n \in 1..Len(error_types) }

\* C1: every request that has been answered has exactly one point in the
\* request counter and one in the duration histogram, both tagged with the
\* request's method, its endpoint and the status code of the response as a
\* string.
C1_OneCounterOneDurationPerRequest ==
    \A r \in Requests :
        Responded(r) =>
            /\ Len(request_counter[r]) = 1
            /\ Len(request_duration[r]) = 1
            /\ \A t \in { request_counter[r][1], request_duration[r][1] } :
                  /\ t.method = request[r].method
                  /\ t.endpoint = request[r].path
                  /\ t.status_code = Str(response[r].status)

\* A checkout that got to the payment decision and has been answered.
ReachedDecision(r) ==
    /\ Responded(r)
    /\ request[r].path = "/api/checkout"
    /\ \E i \in 1..Len(logs[r]) : logs[r][i].msg = "Checkout process started"

ExpectedCurrency(r) == DictGet(request[r].body.json, "userCurrency", "USD")

CheckoutSucceeded(r) ==
    LET sp == spans[r][CHOOSE k \in SpansNamed(r, "checkout_process") : TRUE]
    IN  /\ response[r] = JsonResponse(200)
        /\ "checkout.order_id" \in DOMAIN sp.attrs
        /\ \E n \in 1..Len(sp.events) :
              sp.events[n] = "Payment processed successfully"
        /\ sp.status = "UNSET"
        /\ request_counter[r] = << CheckoutTags("200", ExpectedCurrency(r)) >>
        /\ request_duration[r] = << CheckoutTags("200", ExpectedCurrency(r)) >>

CheckoutFailed(r) ==
    LET sp == spans[r][CHOOSE k \in SpansNamed(r, "checkout_process") : TRUE]
    IN  /\ response[r].status = 500
        /\ sp.status = "ERROR"
        /\ "error.type" \in DOMAIN sp.attrs
        /\ sp.attrs["error.type"] \in ErrorTypeSet
        /\ Cardinality(LogsAt(r, "ERROR")) = 1
        /\ request_counter[r] =
              << CheckoutErrorTags("500", ExpectedCurrency(r),
                                   sp.attrs["error.type"]) >>
        /\ request_duration[r] = request_counter[r]
        \* the log and the metrics come before the raise
        /\ Once(r, << "raise", "", "Exception" >>)
        /\ \A e \in { << "log", "", "ERROR" >>, << "counter_add", "", "" >>,
                      << "duration_record", "", "" >> } :
              /\ Once(r, e)
              /\ Position(r, e) < Position(r, << "raise", "", "Exception" >>)

\* C2: a checkout that reaches the payment decision ends either as a success
\* (200, order id, success event, no error status, metrics tagged "200" and
\* currency) or as a failure (span errored with one of the six error types,
\* one error log, metrics tagged "500", currency and that error type, all
\* recorded before the exception leaves the handler, response 500), never
\* both.
C2_CheckoutSuccessOrFailure ==
    \A r \in Requests :
        ReachedDecision(r) =>
            /\ Cardinality(SpansNamed(r, "checkout_process")) = 1
            /\ CheckoutSucceeded(r) \/ CheckoutFailed(r)
            /\ ~(CheckoutSucceeded(r) /\ CheckoutFailed(r))

C2_Witness ==
    \E r \in Requests :
        /\ pc[r] = "done"
        /\ ReachedDecision(r)
        /\ CheckoutFailed(r)
        /\ locals[r].currency = "EUR"

\* C3: GET /api/error answers 500 with a JSON body, and its error_simulation
\* span has error status when it ends.
C3_SimulatedErrorIs500WithErrorSpan ==
    \A r \in Requests :
        /\ \A k \in SpansNamed(r, "error_simulation") :
              spans[r][k].ended => spans[r][k].status = "ERROR"
        /\ (Responded(r) /\ request[r].path = "/api/error") =>
              /\ response[r] = JsonResponse(500)
              /\ \E k \in SpansNamed(r, "error_simulation") : spans[r][k].ended

C3_Witness ==
    \E r \in Requests :
        /\ pc[r] = "done"
        /\ request[r].path = "/api/error"
        /\ \E k \in SpansNamed(r, "error_simulation") : spans[r][k].ended

\* C4: GET /api/data records exactly one database-duration point, while the
\* database_query span is open, and that span ends before the get_data span
\* ends; no other handler records a database-duration point.
C4_OneDbObservationInsideChildSpan ==
    \A r \in Requests :
        /\ Len(db_query_duration[r]) <= 1
        /\ db_query_duration[r] # <<>> => request[r].path = "/api/data"
        /\ (Responded(r) /\ request[r].path = "/api/data") =>
              /\ Len(db_query_duration[r]) = 1
              /\ \A e \in { << "start_span", "database_query", "" >>,
                            << "db_duration_record", "", "" >>,
                            << "end_span", "database_query", "" >>,
                            << "end_span", "get_data", "" >> } : Once(r, e)
              /\ Position(r, << "start_span", "database_query", "" >>)
                    < Position(r, << "db_duration_record", "", "" >>)
              /\ Position(r, << "db_duration_record", "", "" >>)
                    < Position(r, << "end_span", "database_query", "" >>)
              /\ Position(r, << "end_span", "database_query", "" >>)
                    < Position(r, << "end_span", "get_data", "" >>)

C4_Witness ==
    \E r \in Requests :
        /\ pc[r] = "done"
        /\ request[r].path = "/api/data"
        /\ Len(db_query_duration[r]) = 1

-----------------------------------------------------------------------------
(* Reading a hex string back: int(s, 16), as limbs.                         *)

HexDigitSet == { HexDigits[d] : d \in 1..Len(HexDigits) }
HexVal(c) == CHOOSE d \in 0..15 : HexDigits[d + 1] = c

IsHexString(s, n) == Len(s) = n /\ \A i \in 1..Len(s) : s[i] \in HexDigitSet
NonZeroHex(s) == \E i \in 1..Len(s) : s[i] # "0"

ParseHex(s, limbs) ==
    LET p == PadZeros(s, 4 * limbs)
        first == Len(p) - 4 * limbs
    IN  [ n \in 1..limbs |->
            4096 * HexVal(p[first + 4 * n - 3]) + 256 * HexVal(p[first + 4 * n - 2])
            + 16 * HexVal(p[first + 4 * n - 1]) + HexVal(p[first + 4 * n]) ]

WellFormedIds(l) ==
    /\ IsHexString(l.extra_trace_id, TraceIdHexWidth)
    /\ IsHexString(l.extra_span_id, SpanIdHexWidth)
    /\ NonZeroHex(l.extra_trace_id)
    /\ NonZeroHex(l.extra_span_id)

\* C5 as stated: the ids the completion hook logs are well formed and are
\* those of the span the handler created for the request.
C5_HookLogsHandlerSpanIds ==
    \A r \in Requests : \A i \in HookLogs(r) :
        /\ WellFormedIds(logs[r][i])
        /\ \E k \in SpansNamed(r, HandlerSpanName(request[r].path)) :
              /\ ParseHex(logs[r][i].extra_trace_id, TraceIdLimbs)
                    = spans[r][k].trace_id
              /\ ParseHex(logs[r][i].extra_span_id, SpanIdLimbs)
                    = spans[r][k].span_id

\* C5: the ids the completion hook logs are a 32-digit and a 16-digit hex
\* string, non-zero, and are the ids of the request's server span; every
\* span the handler created has ended, is in the same trace and has another
\* span id.
C5_HookLogsServerSpanIds ==
    \A r \in Requests : \A i \in HookLogs(r) :
        /\ WellFormedIds(logs[r][i])
        /\ \E k \in SpansNamed(r, ServerSpanName(request[r].path)) :
              /\ ParseHex(logs[r][i].extra_trace_id, TraceIdLimbs)
                    = spans[r][k].trace_id
              /\ ParseHex(logs[r][i].extra_span_id, SpanIdLimbs)
                    = spans[r][k].span_id
        /\ \A h \in HandlerSpans(r) :
              /\ spans[r][h].ended
              /\ ParseHex(logs[r][i].extra_trace_id, TraceIdLimbs)
                    = spans[r][h].trace_id
              /\ ParseHex(logs[r][i].extra_span_id, SpanIdLimbs)
                    # spans[r][h].span_id

C5_Witness ==
    \E r \in Requests : \E i \in HookLogs(r) :
        /\ HandlerSpans(r) # {}
        /\ logs[r][i].extra_span_id[1] = "0"
        /\ logs[r][i].extra_trace_id[1] = "0"

\* Positions of the runs of the completion hook in the history of r.
HookPositions(r) ==
    { i \in 1..Len(ops[r]) : ops[r][i][1] = "after_request" }
HookPosition(r) == CHOOSE i \in HookPositions(r) : TRUE

\* C6: once the response is produced the completion hook runs exactly once,
\* after everything the handler did; it emits one INFO record when the
\* current span is recording and none otherwise, and returns the response
\* unchanged.
C6_HookRunsOnceAfterHandler ==
    \A r \in Requests :
        /\ pc[r] # "done" =>
              /\ hook_runs[r] = 0
              /\ HookPositions(r) = {}
              /\ HookLogs(r) = {}
              /\ sent[r] = None
        /\ pc[r] = "done" =>
              /\ hook_runs[r] = 1
              /\ Cardinality(HookPositions(r)) = 1
              /\ \A i \in 1..Len(ops[r]) :
                    i > HookPosition(r) =>
                        ops[r][i] = << "end_span",
                                       ServerSpanName(request[r].path), "" >>
              /\ response[r] # None
              /\ sent[r] = response[r]
              /\ Cardinality(HookLogs(r)) =
                    IF ops[r][HookPosition(r)][3] = "recording" THEN 1 ELSE 0
              /\ \A i \in HookLogs(r) : logs[r][i].level = "INFO"

C6_Witness ==
    \E r, q \in Requests :
        /\ pc[r] = "done" /\ pc[q] = "done"
        /\ request[r].path = "/api/checkout" /\ response[r].status = 500
        /\ locals[r].error_type # ""
        /\ Cardinality(HookLogs(r)) = 1
        /\ request[q].path = "/health"
        /\ ops[q][HookPosition(q)][3] = "not_recording"
        /\ HookLogs(q) = {}

\* A simulated failure: GET /api/error, or a checkout that raised.
PaymentDeclined(r) ==
    request[r].path = "/api/checkout"
        /\ Positions(r, << "raise", "", "Exception" >>) # {}
SimulatedFailure(r) ==
    Responded(r) /\ (request[r].path = "/api/error" \/ PaymentDeclined(r))

MarkedAndSurfaced(r) ==
    /\ \E k \in SpansNamed(r, HandlerSpanName(request[r].path)) :
          /\ spans[r][k].status = "ERROR"
          /\ spans[r][k].description # <<>>
    /\ response[r].status = 500

\* C7 as stated: both simulated failures are marked on the span as an error
\* with a message, logged at error level and answered with a failed response.
C7_BothFailuresLoggedAtErrorLevel ==
    \A r \in Requests :
        SimulatedFailure(r) => MarkedAndSurfaced(r) /\ LogsAt(r, "ERROR") # {}

\* C7: both simulated failures are marked on the span as an error with a
\* message and answered 500; the payment decline is logged at error level
\* once, the /api/error handler emits no log record at all.
C7_FailuresMarkedOnlyCheckoutLogged ==
    \A r \in Requests :
        SimulatedFailure(r) =>
            /\ MarkedAndSurfaced(r)
            /\ PaymentDeclined(r) => Cardinality(LogsAt(r, "ERROR")) = 1
            /\ request[r].path = "/api/error" =>
                  \A i \in 1..Len(logs[r]) : i \in HookLogs(r)

C7_Witness ==
    \E r, q \in Requests :
        /\ pc[r] = "done" /\ request[r].path = "/api/error"
        /\ LogsAt(r, "ERROR") = {}
        /\ pc[q] = "done" /\ PaymentDeclined(q)

-----------------------------------------------------------------------------
\* What the handler of r did: the history of r's thread between the
\* instrumentation's before_request and the completion hook.
HandlerOps(r) ==
    LET first == IF ops[r] # <<>> /\ ops[r][1] =
                      << "start_span", ServerSpanName(request[r].path), "" >>
                 THEN 2 ELSE 1
        last == IF HookPositions(r) = {} THEN Len(ops[r])
                ELSE HookPosition(r) - 1
    IN  SubSeq(ops[r], first, last)

HttpAttributesFirst(r, h) ==
    LET name == HandlerSpanName(request[r].path)
    IN  h # <<>> =>
            /\ Len(h) >= 4
            /\ h[1] = << "start_span", name, "" >>
            /\ h[2] = << "set_attribute", name, "http.method" >>
            /\ h[3] = << "set_attribute", name, "http.route" >>
            /\ h[4] = << "set_attribute", name, "http.endpoint" >>

ErrorRecordedOnSpan(r) ==
    \E k \in SpansNamed(r, HandlerSpanName(request[r].path)) :
        /\ "error.type" \in DOMAIN spans[r][k].attrs
        /\ "error.message" \in DOMAIN spans[r][k].attrs
        /\ spans[r][k].exceptions >= 1
        /\ spans[r][k].status = "ERROR"

\* The handler of r has opened its span.
SpanOpened(r) ==
    pc[r] # "idle" /\ SpansNamed(r, HandlerSpanName(request[r].path)) # {}

ErrorPath(r) == Responded(r) /\ response[r].status >= 400

AfterBodyRead(r) ==
    LET h == HandlerOps(r)
    IN  IF request[r].path = "/api/checkout" /\ h # <<>>
           /\ h[1] = << "get_json", "", "" >>
        THEN Tail(h) ELSE h

C9_OneHandlerSpanPerInvocation ==
    \A r \in Requests :
        Responded(r) =>
            LET name == HandlerSpanName(request[r].path)
            IN  /\ Cardinality(SpansNamed(r, name)) = 1
                /\ IF request[r].path = "/api/data"
                   THEN /\ Cardinality(HandlerSpans(r)) = 2
                        /\ \E p \in SpansNamed(r, "get_data") :
                           \E c \in SpansNamed(r, "database_query") :
                              /\ spans[r][c].parent = spans[r][p].span_id
                              /\ spans[r][c].trace_id = spans[r][p].trace_id
                   ELSE Cardinality(HandlerSpans(r)) = 1

\* C10: with requests served concurrently, every log record carries the
\* trace id and span id of the span that was current in its own thread when
\* it was emitted (zero ids when none was), never the ids of a span of
\* another request.
C10_LogsCarryOwnSpanIds ==
    \A r \in Requests : \A i \in 1..Len(logs[r]) :
        LET l == logs[r][i]
        IN  /\ IF l.active = 0
               THEN l.trace_id = INVALID_TRACE_ID /\ l.span_id = INVALID_SPAN_ID
               ELSE /\ l.trace_id = spans[r][l.active].trace_id
                    /\ l.span_id = spans[r][l.active].span_id
            /\ \A q \in Requests \ {r} : \A k \in 1..Len(spans[q]) :
                  spans[q][k].span_id # l.span_id
            /\ i \in HookLogs(r) =>
                  /\ l.active # 0
                  /\ ParseHex(l.extra_trace_id, TraceIdLimbs)
                        = spans[r][l.active].trace_id
                  /\ ParseHex(l.extra_span_id, SpanIdLimbs)
                        = spans[r][l.active].span_id

\* Two requests in flight at once, each with a span current in its thread
\* and a log record emitted under it.
C10_Witness ==
    \E r, q \in Requests :
        /\ r # q
        /\ pc[r] = "home_sleep" /\ pc[q] = "home_sleep"
        /\ logs[r] # <<>> /\ logs[q] # <<>>
        /\ Len(context[r]) = 2 /\ Len(context[q]) = 2

-----------------------------------------------------------------------------
\* Every point r's thread put into the instrument with this history entry
\* was recorded between the start and the end of the handler's span.
RecordedInsideHandlerSpan(r, e) ==
    LET name == HandlerSpanName(request[r].path)
    IN  \A p \in Positions(r, e) :
            /\ \E s \in Positions(r, << "start_span", name, "" >>) : s < p
            /\ \A x \in Positions(r, << "end_span", name, "" >>) : p < x

\* C11: once the handler has returned or raised, every span it opened has
\* ended and is no longer in the thread's context, so the completion hook
\* never sees a handler span as the current span; and every point of the
\* request counter and of the duration histogram was recorded while the
\* handler's span was open.
C11_HandlerSpansClosedBeforeHook ==
    \A r \in Requests :
        /\ Responded(r) =>
              \A h \in HandlerSpans(r) :
                  /\ spans[r][h].ended
                  /\ \A n \in 1..Len(context[r]) : context[r][n] # h
                  /\ Once(r, << "end_span", spans[r][h].name, "" >>)
                  /\ HookPositions(r) # {} =>
                        Position(r, << "end_span", spans[r][h].name, "" >>)
                            < HookPosition(r)
        /\ \A i \in HookLogs(r) : logs[r][i].active \notin HandlerSpans(r)
        /\ RecordedInsideHandlerSpan(r, << "counter_add", "", "" >>)
        /\ RecordedInsideHandlerSpan(r, << "duration_record", "", "" >>)
        /\ (request_counter[r] # <<>> \/ request_duration[r] # <<>>) =>
              SpanOpened(r)

\* The hook is about to run for a checkout that left its handler by the
\* exception, and for a data fetch that opened two spans.
C11_Witness ==
    \E r, q \in Requests :
        /\ pc[r] = "after_request" /\ PaymentDeclined(r)
        /\ Len(request_counter[r]) = 1
        /\ \E h \in HandlerSpans(r) : spans[r][h].ended
        /\ pc[q] = "after_request" /\ request[q].path = "/api/data"
        /\ Cardinality(HandlerSpans(q)) = 2

====
